---- MODULE Spec2Model ----
(***************************************************************************)
(* Model of src/streamlit_app.py: one Streamlit script run (sidebar        *)
(* filters, tab 1 metrics, tab 5 churn pipeline, download button) over a   *)
(* cached base table.  A table is a sequence of rows; a row is a record    *)
(* from column names to cell values.  Missing cells are NaN (numeric       *)
(* columns) or NaNStr (string columns).                                    *)
(***************************************************************************)
EXTENDS Integers, Sequences, FiniteSets, TLC

VARIABLES df, selected_gender, selected_genre, age_range, filtered_df,
          df_model, nan_count_before, split, model, X_test_onehot, feature_names, out, failure, pc

vars == <<df, selected_gender, selected_genre, age_range, filtered_df,
          df_model, nan_count_before, split, model, X_test_onehot, feature_names, out, failure, pc>>

-----------------------------------------------------------------------------
(* Bounds of the explored inputs *)

\* tables of at most MaxRows rows are drawn from every row kind
MaxRows == 2

\* tables of at most MaxFitRows rows are drawn from the complete row kinds
MaxFitRows == 6

\* tables of at most MaxLongRows rows are drawn from the two label classes
MaxLongRows == 8

-----------------------------------------------------------------------------
(* Cell values *)

NaN == -1

NaNStr == "NaN"

Genders == {"Female", "Male"}

\* the categories of engagement_order; a value outside them (a missing
\* EngagementLevel after pd.Categorical) is not among the explored inputs
EngagementLevels == {"Low", "Medium", "High"}

StrCols == {"Gender", "Location", "GameGenre", "GameDifficulty", "EngagementLevel"}

IsNull(c, v) == IF c \in StrCols THEN v = NaNStr ELSE v = NaN

\* sorted category order, as OneHotEncoder sorts the categories it learns
CategoryOrder(f) ==
    CASE f = "Gender" -> <<"Female", "Male">>
      [] f = "Location" -> <<"USA">>
      [] f = "GameGenre" -> <<"Action">>
      [] f = "GameDifficulty" -> <<"Easy">>

-----------------------------------------------------------------------------
(* Schema *)

features == <<"Age", "Gender", "Location", "GameGenre", "PlayTimeHours",
              "InGamePurchases", "GameDifficulty", "SessionsPerWeek",
              "AvgSessionDurationMinutes", "PlayerLevel", "AchievementsUnlocked">>

target == "Churn"

numeric_features == <<"Age", "PlayTimeHours", "SessionsPerWeek",
                      "AvgSessionDurationMinutes", "PlayerLevel", "AchievementsUnlocked">>

categorical_features == <<"Gender", "Location", "GameGenre", "GameDifficulty">>

Range(s) == {s[i] : i \in 1..Len(s)}

ModelCols == Range(features) \cup {target}

-----------------------------------------------------------------------------
(* load_data *)

LTVProxy(r) ==
    IF r.InGamePurchases = NaN \/ r.PlayTimeHours = NaN \/ r.PlayerLevel = NaN
    THEN NaN
    ELSE r.InGamePurchases * 5000 + r.PlayTimeHours * 100 + r.PlayerLevel * 10

AddColumn(r, c, v) == [k \in DOMAIN r \cup {c} |-> IF k = c THEN v ELSE r[k]]

load_data(raw) == [i \in 1..Len(raw) |-> AddColumn(raw[i], "LTV_Proxy", LTVProxy(raw[i]))]

RawRow(g, e, loc, pt) ==
    [Age |-> 25, Gender |-> g, Location |-> loc, GameGenre |-> "Action",
     PlayTimeHours |-> pt, InGamePurchases |-> 1, GameDifficulty |-> "Easy",
     SessionsPerWeek |-> 3, AvgSessionDurationMinutes |-> 60, PlayerLevel |-> 5,
     AchievementsUnlocked |-> 7, EngagementLevel |-> e]

AllRowKinds == {RawRow(g, e, loc, pt) : g \in Genders, e \in EngagementLevels,
                                        loc \in {"USA", NaNStr}, pt \in {10, NaN}}

CompleteRowKinds == {RawRow("Male", "Low", "USA", 10), RawRow("Male", "Medium", "USA", 10),
                     RawRow("Female", "Medium", "USA", 10)}

LabelRowKinds == {RawRow("Male", "Low", "USA", 10), RawRow("Male", "Medium", "USA", 10)}

BoundedSeq(S, n) == UNION {[1..k -> S] : k \in 0..n}

RawTables == BoundedSeq(AllRowKinds, MaxRows)
             \cup BoundedSeq(CompleteRowKinds, MaxFitRows)
             \cup BoundedSeq(LabelRowKinds, MaxLongRows)

-----------------------------------------------------------------------------
(* Per-run state *)

NoSplit == [done |-> FALSE, train |-> {}, test |-> {}]

NoModel == [fitted |-> FALSE,
            stats |-> [c \in Range(numeric_features) |-> [n |-> 0, sum |-> 0, sumsq |-> 0]],
            vocab |-> [f \in Range(categorical_features) |-> {}],
            n_coef |-> 0]

NoFailure == [stage |-> "none", caught |-> TRUE]

Init ==
    /\ df \in {load_data(t) : t \in RawTables}
    /\ selected_gender = {}
    /\ selected_genre = {}
    /\ age_range = <<0, 0>>
    /\ filtered_df = <<>>
    /\ df_model = <<>>
    /\ nan_count_before = 0
    /\ split = NoSplit
    /\ model = NoModel
    /\ X_test_onehot = <<>>
    /\ feature_names = <<>>
    /\ out = <<>>
    /\ failure = NoFailure
    /\ pc = "sidebar"

-----------------------------------------------------------------------------
(* Helpers over tables *)

RECURSIVE SumSeq(_)
SumSeq(s) == IF s = <<>> THEN 0 ELSE Head(s) + SumSeq(Tail(s))

Min(S) == CHOOSE x \in S : \A y \in S : x <= y

Max(S) == CHOOSE x \in S : \A y \in S : x >= y

Column(rows, c) == [i \in 1..Len(rows) |-> rows[i][c]]

\* Series.unique(): the distinct values of a column
unique(rows, c) == Range(Column(rows, c))

\* an emptiness test that never fires
emptyNever(rows) == Len(rows) < 0

\* DataFrame.empty
empty(rows) == Len(rows) = 0

\* Series.mean(): missing values are skipped; NaN when nothing is left
mean(rows, c) ==
    LET vals == SelectSeq(Column(rows, c), LAMBDA v : v # NaN)
    IN IF vals = <<>> THEN NaN ELSE SumSeq(vals) \div Len(vals)

\* script run aborted by an exception no handler catches
Uncaught(stage) == [stage |-> stage, caught |-> FALSE]

\* exception handled by the except clause of tab 5
Caught(stage) == [stage |-> stage, caught |-> TRUE]

-----------------------------------------------------------------------------
(* Sidebar filters and filtered_df *)

filter_rows(rows, sg, sgen, ar) ==
    SelectSeq(rows, LAMBDA r : /\ r.Gender \in sg
                               /\ r.GameGenre \in sgen
                               /\ r.Age # NaN
                               /\ r.Age >= ar[1]
                               /\ r.Age <= ar[2])

Sidebar ==
    /\ pc = "sidebar"
    /\ LET ages == unique(df, "Age") \ {NaN}
       IN IF ages = {}
          THEN \* int(df['Age'].min()) of an empty column
               /\ failure' = Uncaught("sidebar")
               /\ pc' = "crashed"
               /\ UNCHANGED <<selected_gender, selected_genre, age_range, filtered_df>>
          ELSE \E sg \in SUBSET unique(df, "Gender"),
                  sgen \in SUBSET unique(df, "GameGenre"),
                  lo \in Min(ages)..Max(ages), hi \in Min(ages)..Max(ages) :
                    /\ lo <= hi
                    /\ selected_gender' = sg
                    /\ selected_genre' = sgen
                    /\ age_range' = <<lo, hi>>
                    /\ filtered_df' = filter_rows(df, sg, sgen, <<lo, hi>>)
                    /\ pc' = "tab1"
                    /\ UNCHANGED failure
    /\ UNCHANGED <<df, df_model, nan_count_before, split, model, X_test_onehot, feature_names, out>>

-----------------------------------------------------------------------------
(* Tab 1: headline metrics *)

Tab1Metrics ==
    /\ pc = "tab1"
    /\ LET avg_ltv == mean(filtered_df, "LTV_Proxy")
       IN IF avg_ltv = NaN
          THEN \* int(avg_ltv) of NaN raises ValueError
               /\ failure' = Uncaught("tab1")
               /\ pc' = "crashed"
               /\ UNCHANGED out
          ELSE /\ out' = Append(out, "tab1_metrics")
               /\ pc' = "tab5"
               /\ UNCHANGED failure
    /\ UNCHANGED <<df, selected_gender, selected_genre, age_range, filtered_df,
                   df_model, nan_count_before, split, model, X_test_onehot, feature_names>>

-----------------------------------------------------------------------------
(* Tab 5: label derivation *)

\* the label rule with the wrong category test
ChurnOfNotHigh(x) == IF x = "High" THEN 0 ELSE 1

ChurnOf(x) == IF x = "Low" THEN 1 ELSE 0

DeriveChurn(rows) ==
    [i \in 1..Len(rows) |-> AddColumn(rows[i], target, ChurnOf(rows[i].EngagementLevel))]

\* a table that shares its data with the table written to
CopySourceAliased(source, written) == written

\* the table a .copy() was taken from, after an in-place write to the copy
CopySource(source, written) == source

Tab5Label ==
    /\ pc = "tab5"
    /\ IF empty(filtered_df)
       THEN /\ out' = Append(out, "warn_empty")
            /\ pc' = "stopped"
            /\ UNCHANGED <<df, filtered_df>>
       ELSE /\ filtered_df' = DeriveChurn(filtered_df)
            /\ df' = CopySource(df, filtered_df')
            /\ pc' = "clean"
            /\ UNCHANGED out
    /\ UNCHANGED <<selected_gender, selected_genre, age_range,
                   df_model, nan_count_before, split, model, X_test_onehot, feature_names, failure>>

-----------------------------------------------------------------------------
(* Tab 5: cleaning *)

SelectColumns(rows, cols) == [i \in 1..Len(rows) |-> [c \in cols |-> rows[i][c]]]

\* DataFrame.isnull().sum(): per column, the number of missing cells
NullsInColumn(rows, c) == Cardinality({i \in 1..Len(rows) : IsNull(c, rows[i][c])})

\* a count of the rows that have a missing cell instead of the cells
NanCountRows(rows) == Cardinality({i \in 1..Len(rows) : \E c \in DOMAIN rows[i] : IsNull(c, rows[i][c])})

\* DataFrame.isnull().sum().sum(): the per-column counts added up
NanCount(rows) ==
    LET cols == features \o <<target>>
    IN SumSeq([k \in 1..Len(cols) |-> NullsInColumn(rows, cols[k])])

HasNull(r) == \E c \in DOMAIN r : IsNull(c, r[c])

\* dropna(how = 'all'): only rows with every cell missing are removed
DropNaAll(rows) == SelectSeq(rows, LAMBDA r : \E c \in DOMAIN r : ~IsNull(c, r[c]))

\* DataFrame.dropna(): rows with any missing cell are removed
RECURSIVE DropNa(_)
DropNa(rows) ==
    IF rows = <<>> THEN <<>>
    ELSE IF HasNull(Head(rows)) THEN DropNa(Tail(rows))
         ELSE <<Head(rows)>> \o DropNa(Tail(rows))

\* the cleaner: rows are dropped only when a missing cell was counted
CleanTable(rows) == IF NanCount(rows) > 0 THEN DropNa(rows) ELSE rows

Clean ==
    /\ pc = "clean"
    /\ LET copied == SelectColumns(filtered_df, ModelCols)
           cnt == NanCount(copied)
           cleaned == CleanTable(copied)
       IN /\ df_model' = cleaned
          /\ nan_count_before' = cnt
          /\ out' = out \o (IF cnt > 0 THEN <<"info_nan">> ELSE <<>>)
                        \o (IF empty(cleaned) THEN <<"warn_no_data">> ELSE <<>>)
          /\ filtered_df' = CopySource(filtered_df, cleaned)
          /\ pc' = IF empty(cleaned) THEN "stopped" ELSE "split"
    /\ UNCHANGED <<df, selected_gender, selected_genre, age_range,
                   split, model, X_test_onehot, feature_names, failure>>

-----------------------------------------------------------------------------
(* Tab 5: stratified split (train_test_split, test_size = 0.2, stratify = y) *)

TestSizeNum == 1

TestSizeDen == 5

CeilDiv(a, b) == (a + b - 1) \div b

NTest(n) == CeilDiv(n * TestSizeNum, TestSizeDen)

NTrain(n) == n - NTest(n)

ClassIdx(y, c) == {i \in 1..Len(y) : y[i] = c}

\* ValueError conditions of the stratified shuffle split
SplitRaises(y) ==
    LET n == Len(y)
        classes == Range(y)
    IN \/ NTrain(n) = 0
       \/ \E c \in classes : Cardinality(ClassIdx(y, c)) < 2
       \/ NTrain(n) < Cardinality(classes)
       \/ NTest(n) < Cardinality(classes)

\* per-class train sizes: proportional share rounded down, the shortfall
\* handed to the classes with the largest fractional share (ties by the rng)
TrainAllocations(y) ==
    LET n == Len(y)
        classes == Range(y)
        cnt(c) == Cardinality(ClassIdx(y, c))
        floor(c) == (cnt(c) * NTrain(n)) \div n
        frac(c) == (cnt(c) * NTrain(n)) % n
        total(t) == SumSeq([k \in 1..2 |-> IF (k - 1) \in classes THEN t[k - 1] ELSE 0])
    IN {t \in [classes -> 0..n] :
          /\ \A c \in classes : t[c] \in {floor(c), floor(c) + 1}
          /\ total(t) = NTrain(n)
          /\ \A c, d \in classes :
                (t[c] = floor(c) + 1 /\ t[d] = floor(d)) => frac(c) >= frac(d)}

\* the train index sets the shuffle may produce; the test set is the rest
TrainSets(y) ==
    LET allocs == TrainAllocations(y)
        idx == [c \in Range(y) |-> ClassIdx(y, c)]
    IN {tr \in SUBSET (1..Len(y)) :
          /\ Cardinality(tr) = NTrain(Len(y))
          /\ \E t \in allocs : \A c \in Range(y) : Cardinality(tr \cap idx[c]) = t[c]}

Split ==
    /\ pc = "split"
    /\ LET y == Column(df_model, target)
       IN IF SplitRaises(y)
          THEN \* raised before the try block is entered
               /\ failure' = Uncaught("split")
               /\ pc' = "crashed"
               /\ UNCHANGED split
          ELSE \E tr \in TrainSets(y) :
                    /\ split' = [done |-> TRUE, train |-> tr, test |-> (1..Len(y)) \ tr]
                    /\ pc' = "fit"
                    /\ UNCHANGED failure
    /\ UNCHANGED <<df, selected_gender, selected_genre, age_range, filtered_df,
                   df_model, nan_count_before, model, X_test_onehot, feature_names, out>>

-----------------------------------------------------------------------------
(* Tab 5: try block -- fit, evaluate, interpret *)

\* except Exception as e: st.error(...); the script then goes on to the sidebar
ExceptOut(o) == Append(o, "err_exception")

\* a handler that resumes the pipeline after the failed stage
AfterExceptResume(stage) == IF stage = "fit" THEN "evaluate" ELSE "interpret"

AfterExcept(stage) == "download"

\* columns the ColumnTransformer passes through (remainder = 'passthrough')
RemainderCols(cols) == cols \ (Range(numeric_features) \cup Range(categorical_features))

\* StandardScaler.fit: count, sum and sum of squares of each numeric column
\* over the rows it is fitted on; mean_ and scale_ are functions of the three
ScalerStats(rows, idx) ==
    [c \in Range(numeric_features) |->
        [n |-> Cardinality(idx),
         sum |-> SumSeq([i \in 1..Len(rows) |-> IF i \in idx THEN rows[i][c] ELSE 0]),
         sumsq |-> SumSeq([i \in 1..Len(rows) |-> IF i \in idx THEN rows[i][c] * rows[i][c] ELSE 0])]]

\* an encoder fitted on every row of the table, test rows included
VocabAllRows(rows, idx) == [f \in Range(categorical_features) |-> {rows[i][f] : i \in 1..Len(rows)}]

\* OneHotEncoder.fit: the categories seen in the rows it is fitted on
Vocab(rows, idx) == [f \in Range(categorical_features) |-> {rows[i][f] : i \in idx}]

\* width of the design matrix = number of fitted coefficients
DesignWidth(vocab, cols) ==
    Len(numeric_features)
    + SumSeq([k \in 1..Len(categorical_features) |-> Cardinality(vocab[categorical_features[k]])])
    + Cardinality(RemainderCols(cols))

\* liblinear refuses a training label vector with a single class
FitRaises(y, train) == Cardinality({y[i] : i \in train}) < 2

Fit ==
    /\ pc = "fit"
    /\ LET y == Column(df_model, target)
           X == SelectColumns(df_model, Range(features))
           vocab == Vocab(X, split.train)
       IN IF FitRaises(y, split.train)
          THEN /\ failure' = Caught("fit")
               /\ out' = ExceptOut(out)
               /\ pc' = AfterExcept("fit")
               /\ UNCHANGED model
          ELSE /\ model' = [fitted |-> TRUE,
                            stats |-> ScalerStats(X, split.train),
                            vocab |-> vocab,
                            n_coef |-> DesignWidth(vocab, Range(features))]
               /\ pc' = "evaluate"
               /\ UNCHANGED <<failure, out>>
    /\ UNCHANGED <<df, selected_gender, selected_genre, age_range, filtered_df,
                   df_model, nan_count_before, split, X_test_onehot, feature_names>>

\* classification_report with two target_names needs two labels in y_test and y_pred
ReportRaises(y, test, pred) == Cardinality({y[i] : i \in test} \cup {pred[i] : i \in test}) # 2

EvaluateOut == <<"success", "accuracy", "confusion_matrix", "classification_report">>

\* OneHotEncoder.transform: one indicator per learned category, in sorted order
OneHot(vocab, f, v) ==
    LET cats == SelectSeq(CategoryOrder(f), LAMBDA x : x \in vocab[f])
    IN [k \in 1..Len(cats) |-> IF cats[k] = v THEN 1 ELSE 0]

\* handle_unknown = 'ignore': a category the encoder has not learned raises nothing
TransformRaises(vocab, rows, idx) == FALSE

\* Pipeline.predict transforms with the fitted steps and fits nothing
AfterPredict(m, rows, idx) == m

Evaluate ==
    /\ pc = "evaluate"
    /\ LET y == Column(df_model, target)
           X == SelectColumns(df_model, Range(features))
       IN IF TransformRaises(model.vocab, X, split.test)
          THEN /\ failure' = Caught("predict")
               /\ out' = ExceptOut(out)
               /\ pc' = AfterExcept("predict")
               /\ UNCHANGED <<model, X_test_onehot>>
          ELSE /\ model' = AfterPredict(model, X, split.test)
               /\ X_test_onehot' = [i \in split.test |->
                                       [f \in Range(categorical_features) |-> OneHot(model.vocab, f, X[i][f])]]
               /\ \E pred \in [split.test -> {0, 1}] :
                     IF ReportRaises(y, split.test, pred)
                     THEN /\ failure' = Caught("evaluate")
                          /\ out' = ExceptOut(out)
                          /\ pc' = AfterExcept("evaluate")
                     ELSE /\ out' = out \o EvaluateOut
                          /\ pc' = "interpret"
                          /\ UNCHANGED failure
    /\ UNCHANGED <<df, selected_gender, selected_genre, age_range, filtered_df,
                   df_model, nan_count_before, split, feature_names>>

\* get_feature_names_out(categorical_features): feature_category, per feature, sorted
RECURSIVE CatFeatureNames(_, _)
CatFeatureNames(vocab, feats) ==
    IF feats = <<>> THEN <<>>
    ELSE LET f == Head(feats)
             cats == SelectSeq(CategoryOrder(f), LAMBDA v : v \in vocab[f])
         IN [k \in 1..Len(cats) |-> <<f, cats[k]>>] \o CatFeatureNames(vocab, Tail(feats))

\* feature_names = numeric_features + cat_feature_names (empty on AttributeError)
FeatureNames(vocab, has_api) ==
    [k \in 1..Len(numeric_features) |-> <<numeric_features[k]>>]
    \o (IF has_api THEN CatFeatureNames(vocab, categorical_features) ELSE <<>>)

\* a length check that skips the chart without a message
InterpretOutSilent(n_names, n_coef) ==
    IF n_names = n_coef THEN <<"coef_chart">> ELSE <<>>

\* the length check: the ranking chart, or st.error
InterpretOut(n_names, n_coef) ==
    IF n_names = n_coef THEN <<"coef_chart">> ELSE <<"err_mismatch">>

Interpret ==
    /\ pc = "interpret"
    /\ \E has_api \in BOOLEAN :
          LET names == FeatureNames(model.vocab, has_api)
          IN /\ feature_names' = names
             /\ out' = out \o InterpretOut(Len(names), model.n_coef)
    /\ pc' = "download"
    /\ UNCHANGED <<df, selected_gender, selected_genre, age_range, filtered_df,
                   df_model, nan_count_before, split, model, X_test_onehot, failure>>

-----------------------------------------------------------------------------
(* Sidebar download button, end of the run, and the next run *)

Download ==
    /\ pc = "download"
    /\ out' = Append(out, "download_button")
    /\ pc' = "done"
    /\ UNCHANGED <<df, selected_gender, selected_genre, age_range, filtered_df,
                   df_model, nan_count_before, split, model, X_test_onehot, feature_names, failure>>

\* a widget change reruns the script from the top; df comes from the cache
Rerun ==
    /\ pc \in {"done", "stopped", "crashed"}
    /\ selected_gender' = {}
    /\ selected_genre' = {}
    /\ age_range' = <<0, 0>>
    /\ filtered_df' = <<>>
    /\ df_model' = <<>>
    /\ nan_count_before' = 0
    /\ split' = NoSplit
    /\ model' = NoModel
    /\ X_test_onehot' = <<>>
    /\ feature_names' = <<>>
    /\ out' = <<>>
    /\ failure' = NoFailure
    /\ pc' = "sidebar"
    /\ UNCHANGED df

Next ==
    \/ Sidebar
    \/ Tab1Metrics
    \/ Tab5Label
    \/ Clean
    \/ Split
    \/ Fit
    \/ Evaluate
    \/ Interpret
    \/ Download
    \/ Rerun

Spec == Init /\ [][Next]_vars

-----------------------------------------------------------------------------
(* Positions of a run, read off the state *)

Shown(tag) == \E k \in 1..Len(out) : out[k] = tag

\* the rows the sidebar selection lets through, before any column is added
FilterInput == filter_rows(df, selected_gender, selected_genre, age_range)

\* the sidebar has been evaluated in this run
FilterDone == pc # "sidebar" /\ failure.stage # "sidebar"

\* the run has got past the label derivation of tab 5
LabelDone ==
    \/ pc \in {"clean", "split", "fit", "evaluate", "interpret", "download", "done"}
    \/ pc = "stopped" /\ Shown("warn_no_data")
    \/ pc = "crashed" /\ failure.stage = "split"

\* the run has got past the cleaning of tab 5
CleanDone == LabelDone /\ pc # "clean"

\* the run has got past the interpretation step
InterpretDone == pc \in {"download", "done"} /\ Shown("classification_report")

RunEnded == pc \in {"done", "stopped", "crashed"}

-----------------------------------------------------------------------------
(* Claims *)

\* C1: after label derivation every record of the non-empty filtered set has
\* one Churn value in {0, 1}, equal to 1 exactly when EngagementLevel is Low;
\* row count, row order and every other attribute are those of the filter's output.
C1_ChurnIffLow ==
    LabelDone =>
        LET input == FilterInput
        IN Len(input) > 0 =>
              /\ Len(filtered_df) = Len(input)
              /\ \A i \in 1..Len(filtered_df) :
                    LET before == input[i]
                        after == filtered_df[i]
                    IN /\ DOMAIN after = DOMAIN before \cup {"Churn"}
                       /\ after.Churn \in {0, 1}
                       /\ after.Churn = 1 <=> after.EngagementLevel = "Low"
                       /\ \A c \in DOMAIN before : after[c] = before[c]

C1_Witness ==
    /\ LabelDone
    /\ Len(filtered_df) = 2
    /\ filtered_df[1].EngagementLevel = "High" /\ filtered_df[1].Churn = 0
    /\ filtered_df[2].EngagementLevel = "Low" /\ filtered_df[2].Churn = 1

\* C2: once the interpretation step has run on a fitted model, the expanded
\* feature name list is as long as the coefficient vector and the coefficient
\* chart has been produced.
C2_NamesMatchCoefficients ==
    InterpretDone =>
        /\ Len(feature_names) = model.n_coef
        /\ Shown("coef_chart")

\* C3: every column of the modeling table other than the label is in exactly
\* one of numeric_features and categorical_features.
C3_SchemaPartition ==
    \A i \in 1..Len(df_model) :
        \A c \in DOMAIN df_model[i] \ {"Churn"} :
            /\ c \in Range(numeric_features) \/ c \in Range(categorical_features)
            /\ ~(c \in Range(numeric_features) /\ c \in Range(categorical_features))

\* C4: a failure in split, fit, evaluate or interpret is caught and reported
\* with a message, the run is not aborted by it, and after a split failure no
\* model is fitted.
C4_PipelineFailuresCaught ==
    failure.stage \in {"split", "fit", "evaluate", "interpret"} =>
        /\ failure.caught
        /\ pc # "crashed"
        /\ Shown("err_exception")
        /\ (failure.stage = "split" => ~model.fitted)

\* C5: a run whose filtered record set is empty ends in the stopped state with
\* the 'cannot train' warning shown, without an earlier unhandled error and
\* without label derivation, cleaning, split or fit.
C5_EmptyFilterWarns ==
    (RunEnded /\ FilterDone /\ Len(FilterInput) = 0) =>
        /\ pc = "stopped"
        /\ Shown("warn_empty")
        /\ failure.stage = "none"
        /\ Len(df_model) = 0 /\ ~split.done /\ ~model.fitted

MissingCells(r) == Cardinality({c \in ModelCols : IsNull(c, r[c])})

TotalMissingCells(rows) == SumSeq([i \in 1..Len(rows) |-> MissingCells(rows[i])])

RowsRemoved == Len(filtered_df) - Len(df_model)

C7_CleanExact ==
    CleanDone =>
        /\ df_model = SelectSeq([i \in 1..Len(filtered_df) |-> [c \in ModelCols |-> filtered_df[i][c]]],
                                LAMBDA r : \A c \in ModelCols : ~IsNull(c, r[c]))
        /\ CleanTable(df_model) = df_model

C7_Witness ==
    /\ CleanDone
    /\ Len(filtered_df) = 2
    /\ Len(df_model) = 1
    /\ MissingCells(filtered_df[1]) > 0
    /\ df_model[1].Gender = filtered_df[2].Gender

\* C8: when no row is left after cleaning, the run has stopped with the
\* no-trainable-data warning, and split, fit, evaluation and interpretation
\* have not been executed.
C8_NoRowsStops ==
    (CleanDone /\ Len(df_model) = 0) =>
        /\ pc = "stopped"
        /\ Shown("warn_no_data")
        /\ failure.stage = "none"
        /\ ~split.done /\ ~model.fitted
        /\ ~Shown("accuracy") /\ ~Shown("coef_chart") /\ ~Shown("err_mismatch")

C8_Witness ==
    /\ CleanDone
    /\ Len(filtered_df) > 0
    /\ Len(df_model) = 0
    /\ pc = "stopped"

PipelineTags == {"success", "accuracy", "confusion_matrix", "classification_report",
                 "coef_chart", "err_mismatch", "err_exception"}

PipelineOut == SelectSeq(out, LAMBDA t : t \in PipelineTags)

IsPrefix(s, t) == Len(s) <= Len(t) /\ \A k \in 1..Len(s) : s[k] = t[k]

\* C9: the evaluation results are shown only after a successful split, fit
\* and prediction, the interpretation result only after the evaluation results,
\* each at most once and in that order; after a failed fit or evaluation
\* nothing of that stage or a later one is shown, only the error message.
C9_StagesInOrder ==
    /\ \/ \E last \in {"coef_chart", "err_mismatch"} : IsPrefix(PipelineOut, EvaluateOut \o <<last>>)
       \/ PipelineOut = <<"err_exception">>
    /\ Shown("accuracy") => (split.done /\ model.fitted /\ failure.stage = "none")
    /\ failure.stage \in {"fit", "evaluate"} =>
          /\ PipelineOut = <<"err_exception">>
          /\ pc \in {"download", "done"}
    /\ failure.stage = "fit" => ~model.fitted

C9_Witness ==
    /\ failure.stage = "fit"
    /\ pc = "done"
    /\ PipelineOut = <<"err_exception">>

\* C10: when the interpretation step finds a feature name count different from
\* the coefficient count, no coefficient chart is produced and the mismatch
\* error is shown.
C10_MismatchReported ==
    (InterpretDone /\ Len(feature_names) # model.n_coef) =>
        /\ ~Shown("coef_chart")
        /\ Shown("err_mismatch")

C10_Witness ==
    /\ InterpretDone
    /\ Len(feature_names) # model.n_coef
    /\ Shown("err_mismatch")

\* C11: no step of any run changes the cached base table (it keeps its rows,
\* columns and values and never gains a Churn column); the Churn column goes
\* to the filtered copy only, and cleaning leaves the filtered copy as it was,
\* removing rows from the modeling copy only.
C11_BaseNeverMutated ==
    [][/\ df' = df
       /\ \A i \in 1..Len(df') : "Churn" \notin DOMAIN df'[i]
       /\ pc = "clean" => filtered_df' = filtered_df]_vars

C11_Witness ==
    /\ CleanDone
    /\ Len(filtered_df) < Len(df)
    /\ Len(df_model) < Len(filtered_df)
    /\ \A i \in 1..Len(filtered_df) : "Churn" \in DOMAIN filtered_df[i]
    /\ \A i \in 1..Len(df) : "Churn" \notin DOMAIN df[i]

\* the run has got past the prediction on the test partition
PredictDone == model.fitted /\ pc \in {"interpret", "download", "done"}

\* C12: from the fit on, through prediction and to the end of the run, the
\* learned numeric statistics and category vocabularies are those of the rows
\* of the training partition alone; prediction raises nothing, and a test row
\* whose category is not in the learned vocabulary is encoded as an all-zero
\* indicator block (a learned category as a single 1).
C12_FitOnTrainOnly ==
    /\ model.fitted =>
          /\ split.done /\ split.train \cap split.test = {}
          /\ \A f \in Range(categorical_features) :
                model.vocab[f] = {df_model[i][f] : i \in split.train}
          /\ \A c \in Range(numeric_features) :
                /\ model.stats[c].n = Cardinality(split.train)
                /\ model.stats[c].sum = SumSeq([i \in 1..Len(df_model) |->
                                            IF i \in split.train THEN df_model[i][c] ELSE 0])
                /\ model.stats[c].sumsq = SumSeq([i \in 1..Len(df_model) |->
                                            IF i \in split.train THEN df_model[i][c] * df_model[i][c] ELSE 0])
    /\ failure.stage # "predict"
    /\ PredictDone =>
          /\ DOMAIN X_test_onehot = split.test
          /\ \A i \in split.test : \A f \in Range(categorical_features) :
                LET block == X_test_onehot[i][f]
                    ones == {k \in 1..Len(block) : block[k] = 1}
                IN /\ Len(block) = Cardinality(model.vocab[f])
                   /\ \A k \in 1..Len(block) : block[k] \in {0, 1}
                   /\ Cardinality(ones) = IF df_model[i][f] \in model.vocab[f] THEN 1 ELSE 0

C12_Witness ==
    /\ PredictDone
    /\ \E i \in split.test :
          /\ df_model[i].Gender \notin model.vocab.Gender
          /\ X_test_onehot[i].Gender = <<0>>

====
